---- MODULE Spec2Model ----
(***************************************************************************)
(* Model of the queue manager of src/queue/queue.go: Initialize,           *)
(* OpenChannel, DeclareQueue, ConsumeMessages, PublishMessage,             *)
(* PublishMessageWithExchange and Close, running against an AMQP broker.   *)
(* Every exported method is one action; the broker calls a method makes    *)
(* are appended, in program order, to the manager's call log.              *)
(***************************************************************************)
EXTENDS Integers, Sequences, FiniteSets, TLC

\* ------------------------------------------------------------------ bounds

\* method calls on one manager after its Initialize
MaxOps == 2
\* messages handed to the broker over one run
MaxPublishes == 2

\* ------------------------------------------------------- names of the code

IpfsPinQueue == "IpfsPinQueue"
IpfsFileQueue == "IpfsFileQueue"
IpfsClusterPinQueue == "IpfsClusterPinQueue"
EmailSendQueue == "EmailSendQueue"
IpnsEntryQueue == "IpnsEntryQueue"
IpfsKeyCreationQueue == "IpfsKeyCreationQueue"
DatabaseFileAddQueue == "DatabaseFileAddQueue"

PinExchange == "PinExchange"
PinRemovalExchange == "PinRemovalExchange"
IpfsKeyExchange == "IpfsKeyExchange"

\* the categories the dispatch switch of ConsumeMessages knows
RecognizedQueues ==
    { DatabaseFileAddQueue, IpfsPinQueue, IpfsFileQueue, EmailSendQueue,
      IpnsEntryQueue, IpfsKeyCreationQueue, IpfsClusterPinQueue }

\* the exchange names PublishMessageWithExchange lets through
AllowedExchanges == { PinExchange, PinRemovalExchange, IpfsKeyExchange }

\* the exchange names for which ConsumeMessages binds the queue
BindExchanges == { PinRemovalExchange, PinExchange, IpfsKeyExchange }

\* the prefetch count OpenChannel sets
PrefetchCount == 10

\* the consumption stream opened with auto-acknowledge
ConsumeAutoAck_On == TRUE

\* the autoAck argument ConsumeMessages passes to channel.Consume
ConsumeAutoAck == FALSE

\* ---------------------------------------------------------- input domains

Mgrs == { "m1", "m2" }
\* host names os.Hostname() may return
Hosts == { "hostA", "hostB" }
\* queue names a caller may pass to Initialize: the seven categories and one
\* name that is none of them
QueueNameInputs == RecognizedQueues \cup { "bogus-queue" }
\* exchange names a caller may pass to PublishMessageWithExchange
ExchangeNameInputs == AllowedExchanges \cup { "bogus-exchange" }
\* bodies a caller may publish: the last one has no JSON encoding
Bodies == { "pin-Qm123", "func-value" }
Unmarshalable == { "func-value" }

\* a queue name on the broker: <<host prefix, logical name>>, the prefix ""
\* when the name was not passed through parseQueueName
NoQueue == << "", "" >>
NoExchange == ""

VARIABLES
    mgr,       \* the Manager struct of each manager (and whether it was returned)
    conn,      \* state of the connection each Initialize dialled
    chans,     \* channels opened on each manager's connection, in order
    exchanges, \* broker: declared exchanges
    queues,    \* broker: declared queues
    qargs,     \* broker: the arguments each queue was declared with
    bindings,  \* broker: queue-to-exchange bindings
    ready,     \* broker: messages waiting in each queue
    consumers, \* broker: consumption streams
    unacked,   \* broker: deliveries handed out and not settled
    settled,   \* broker: deliveries settled, with the way they were settled
    accepted,  \* broker: messages routed into a queue, by queue
    calls,     \* broker calls made by each manager, in program order
    last,      \* outcome of the last method call of each manager
    reports,   \* log reports written by Close
    npub,      \* channel publishes attempted so far
    nops       \* method calls made on each manager after Initialize

vars == << mgr, conn, chans, exchanges, queues, qargs, bindings, ready,
           consumers, unacked, settled, accepted, calls, last, reports, npub,
           nops >>

\* ----------------------------------------------------------------- helpers

Call(op, ok, q, x) == [ op |-> op, ok |-> ok, q |-> q, x |-> x ]

\* ------------------------------------------------------------------- state

FreshManager ==
    [ state |-> "none",          \* "returned": Initialize returned the manager;
                                 \* "failed": Initialize returned nil and an error
      channel |-> 0,             \* qm.channel: index into chans, 0 when nil
      QueueName |-> NoQueue,
      Service |-> "",
      ExchangeName |-> NoExchange,
      queue |-> NoQueue,         \* qm.queue: NoQueue when nil
      logger |-> FALSE,          \* qm.logger is set
      publish |-> FALSE,
      consumes |-> 0,            \* consumption streams asked for
      host |-> "",               \* host the manager's process runs on
      cancelled |-> FALSE ]      \* the context of ConsumeMessages is cancelled

NoResult == [ op |-> "none", result |-> "none", publishes |-> 0 ]

Init ==
    /\ mgr = [ m \in Mgrs |-> FreshManager ]
    /\ conn = [ m \in Mgrs |-> "none" ]
    /\ chans = [ m \in Mgrs |-> << >> ]
    /\ exchanges = {}
    /\ queues = {}
    /\ qargs = << >>
    /\ bindings = {}
    /\ ready = << >>
    /\ consumers = {}
    /\ unacked = {}
    /\ settled = {}
    /\ accepted = {}
    /\ calls = [ m \in Mgrs |-> << >> ]
    /\ last = [ m \in Mgrs |-> NoResult ]
    /\ reports = [ m \in Mgrs |-> << >> ]
    /\ npub = 0
    /\ nops = [ m \in Mgrs |-> 0 ]

\* ------------------------------------------------------------- OpenChannel

\* connection.Channel() followed by channel.Qos(10, 0, false), on the channel
\* list chs of a connection whose manager holds channel cur. chOk and qosOk say
\* whether the two broker calls succeed. The new channel is stored in
\* qm.channel before Qos is called; the channel held before is not closed.
OpenChannelOn(chs, cur, chOk, qosOk) ==
    IF ~chOk
    THEN [ chans |-> chs, channel |-> cur, err |-> TRUE ]
    ELSE [ chans |-> Append(chs, [ open |-> TRUE,
                                   qos |-> IF qosOk THEN PrefetchCount ELSE 0 ]),
           channel |-> Len(chs) + 1,
           err |-> ~qosOk ]

\* the channel qm.channel is usable: set, open, on an open connection
ChannelUsable(m) ==
    /\ conn[m] = "open"
    /\ mgr[m].channel # 0
    /\ chans[m][mgr[m].channel].open

\* ------------------------------------------------------------- Initialize

\* the arguments DeclareQueue passes to channel.QueueDeclare
QueueDeclareArgs == [ durable |-> TRUE, autoDelete |-> FALSE, exclusive |-> FALSE ]

\* broker: queue qn declared with args; a queue that exists keeps its own
Declared(qa, qn, args) == IF qn \in DOMAIN qa THEN qa ELSE qa @@ (qn :> args)

\* parseQueueName leaving the host name out of the queue name
parseQueueName_NoHost(host, queueName) == << "", queueName >>

\* parseQueueName: the queue name prefixed with the host name
parseQueueName(host, queueName) == << host, queueName >>

\* the exchange Initialize declares for a queue name (NoExchange: none)
InitExchange(queueName) ==
    CASE queueName = IpfsPinQueue -> PinExchange
      [] queueName = IpfsKeyCreationQueue -> IpfsKeyExchange
      [] OTHER -> NoExchange

\* Initialize dialling a second time
InitSteps_Redial(queueName, publish, service) ==
    << "Dial", "Dial", "Channel", "Qos" >>
    \o (IF service THEN << "setupLogging" >> ELSE << >>)
    \o (IF InitExchange(queueName) # NoExchange
        THEN << "Hostname", "ExchangeDeclare" >> ELSE << >>)
    \o (IF publish THEN << >> ELSE << "QueueDeclare" >>)

\* Initialize declaring the queue whether publish-only or not
InitSteps_AlwaysDeclare(queueName, publish, service) ==
    << "Dial", "Channel", "Qos" >>
    \o (IF service THEN << "setupLogging" >> ELSE << >>)
    \o (IF InitExchange(queueName) # NoExchange
        THEN << "Hostname", "ExchangeDeclare" >> ELSE << >>)
    \o << "QueueDeclare" >>

\* Initialize declaring the queue before the exchange
InitSteps_QueueFirst(queueName, publish, service) ==
    << "Dial", "Channel", "Qos" >>
    \o (IF service THEN << "setupLogging" >> ELSE << >>)
    \o (IF publish THEN << >> ELSE << "QueueDeclare" >>)
    \o (IF InitExchange(queueName) # NoExchange
        THEN << "Hostname", "ExchangeDeclare" >> ELSE << >>)

\* the steps of Initialize that can fail, in program order
InitSteps(queueName, publish, service) ==
    << "Dial", "Channel", "Qos" >>
    \o (IF service THEN << "setupLogging" >> ELSE << >>)
    \o (IF InitExchange(queueName) # NoExchange
        THEN << "Hostname", "ExchangeDeclare" >> ELSE << >>)
    \o (IF publish THEN << >> ELSE << "QueueDeclare" >>)

\* Initialize(queueName, url, publish, service) on host, its k-th step failing
\* (k = 0: no step fails). Every error path returns nil and the error at once.
Initialize(m, queueName, publish, service, host, k) ==
    LET steps == InitSteps(queueName, publish, service)
        n == IF k = 0 THEN Len(steps) ELSE k
        done(s) == \E i \in 1..Len(steps) : steps[i] = s /\ (k = 0 \/ i < k)
        x == InitExchange(queueName)
        qn == IF done("Hostname") THEN parseQueueName(host, queueName)
              ELSE << "", queueName >>
        oc == OpenChannelOn(<< >>, 0, done("Channel"), done("Qos"))
        log == [ i \in 1..n |->
                   Call(steps[i], i # k,
                        IF steps[i] = "QueueDeclare" THEN qn ELSE NoQueue,
                        IF steps[i] = "ExchangeDeclare" THEN x ELSE NoExchange) ]
    IN  /\ mgr[m].state = "none"
        /\ k \in 0..Len(steps)
        /\ conn' = [ conn EXCEPT ![m] = IF done("Dial") THEN "open" ELSE "none" ]
        /\ chans' = [ chans EXCEPT ![m] =
                        IF done("Dial") THEN oc.chans ELSE << >> ]
        /\ exchanges' = IF done("ExchangeDeclare")
                        THEN exchanges \cup { x } ELSE exchanges
        /\ queues' = IF done("QueueDeclare") THEN queues \cup { qn } ELSE queues
        /\ qargs' = IF done("QueueDeclare")
                    THEN Declared(qargs, qn, QueueDeclareArgs) ELSE qargs
        /\ ready' = IF done("QueueDeclare") /\ qn \notin queues
                    THEN ready @@ (qn :> << >>) ELSE ready
        /\ mgr' = [ mgr EXCEPT ![m] =
                      [ state |-> IF k = 0 THEN "returned" ELSE "failed",
                        channel |-> IF done("Dial") THEN oc.channel ELSE 0,
                        QueueName |-> IF done("Qos") THEN qn ELSE NoQueue,
                        Service |-> IF done("Qos") THEN queueName ELSE "",
                        ExchangeName |-> IF done("ExchangeDeclare")
                                         THEN x ELSE NoExchange,
                        queue |-> IF done("QueueDeclare") THEN qn ELSE NoQueue,
                        logger |-> done("setupLogging"),
                        publish |-> publish,
                        consumes |-> 0,
                        host |-> host,
                        cancelled |-> FALSE ] ]
        /\ calls' = [ calls EXCEPT ![m] = log ]
        /\ last' = [ last EXCEPT ![m] =
                       [ op |-> "Initialize",
                         result |-> IF k = 0 THEN "ok" ELSE steps[k],
                         publishes |-> 0 ] ]
        /\ UNCHANGED << bindings, consumers, unacked, settled, accepted,
                        reports, npub, nops >>

\* OpenChannel called again on a returned manager
OpenChannel(m, chOk, qosOk) ==
    LET oc == OpenChannelOn(chans[m], mgr[m].channel,
                            chOk /\ conn[m] = "open", qosOk)
    IN  /\ mgr[m].state = "returned"
        /\ chans' = [ chans EXCEPT ![m] = oc.chans ]
        /\ mgr' = [ mgr EXCEPT ![m].channel = oc.channel ]
        /\ calls' = [ calls EXCEPT ![m] =
                        @ \o << Call("Channel", oc.channel # mgr[m].channel,
                                     NoQueue, NoExchange) >>
                          \o (IF oc.channel # mgr[m].channel
                              THEN << Call("Qos", ~oc.err, NoQueue, NoExchange) >>
                              ELSE << >>) ]
        /\ last' = [ last EXCEPT ![m] =
                       [ op |-> "OpenChannel",
                         result |-> IF oc.err THEN "error" ELSE "ok",
                         publishes |-> 0 ] ]
        /\ nops' = [ nops EXCEPT ![m] = @ + 1 ]
        /\ UNCHANGED << conn, exchanges, queues, qargs, bindings, ready, consumers,
                        unacked, settled, accepted, reports, npub >>

\* DeclareQueue called on a returned manager: QueueDeclare of qm.QueueName,
\* durable, not auto-delete, not exclusive; on success qm.queue is set
DeclareQueue(m, ok) ==
    LET good == ok /\ ChannelUsable(m)
        qn == mgr[m].QueueName
    IN  /\ mgr[m].state = "returned"
        /\ queues' = IF good THEN queues \cup { qn } ELSE queues
        /\ qargs' = IF good THEN Declared(qargs, qn, QueueDeclareArgs) ELSE qargs
        /\ ready' = IF good /\ qn \notin queues
                    THEN ready @@ (qn :> << >>) ELSE ready
        /\ mgr' = [ mgr EXCEPT ![m].queue = IF good THEN qn ELSE @ ]
        /\ calls' = [ calls EXCEPT ![m] =
                        Append(@, Call("QueueDeclare", good, qn, NoExchange)) ]
        /\ last' = [ last EXCEPT ![m] =
                       [ op |-> "DeclareQueue",
                         result |-> IF good THEN "ok" ELSE "error",
                         publishes |-> 0 ] ]
        /\ nops' = [ nops EXCEPT ![m] = @ + 1 ]
        /\ UNCHANGED << conn, chans, exchanges, bindings, consumers, unacked,
                        settled, accepted, reports, npub >>

\* --------------------------------------------------------- ConsumeMessages

\* the dispatch switch matching on the host-prefixed queue name: no case
\* for a host-scoped category
HandlerFor_OnPrefixedName(service) ==
    CASE service = DatabaseFileAddQueue -> "ProcessDatabaseFileAdds"
      [] service = IpfsFileQueue -> "ProccessIPFSFiles"
      [] service = EmailSendQueue -> "ProcessMailSends"
      [] service = IpnsEntryQueue -> "ProcessIPNSEntryCreationRequests"
      [] service = IpfsClusterPinQueue -> "ProcessIPFSClusterPins"
      [] OTHER -> ""

\* the handler the dispatch switch of ConsumeMessages picks for qm.Service
\* ("": the default branch, no handler)
HandlerFor(service) ==
    CASE service = DatabaseFileAddQueue -> "ProcessDatabaseFileAdds"
      [] service = IpfsPinQueue -> "ProccessIPFSPins"
      [] service = IpfsFileQueue -> "ProccessIPFSFiles"
      [] service = EmailSendQueue -> "ProcessMailSends"
      [] service = IpnsEntryQueue -> "ProcessIPNSEntryCreationRequests"
      [] service = IpfsKeyCreationQueue -> "ProcessIPFSKeyCreation"
      [] service = IpfsClusterPinQueue -> "ProcessIPFSClusterPins"
      [] OTHER -> ""

\* the bind left out of ConsumeMessages
NeedsBind_Never(exchangeName) == FALSE

\* the switch on qm.ExchangeName: the queue is bound for these exchanges only
NeedsBind(exchangeName) == exchangeName \in BindExchanges

\* ConsumeMessages: open the database, bind the queue when the manager has one
\* of the bind exchanges, open the consumption stream, then dispatch on
\* qm.Service. dbOk, bindOk and consumeOk say whether the three calls succeed.
ConsumeMessages(m, dbOk, bindOk, consumeOk) ==
    LET qn == mgr[m].QueueName
        x == mgr[m].ExchangeName
        binds == dbOk /\ NeedsBind(x)
        bound == binds /\ bindOk /\ ChannelUsable(m)
                   /\ qn \in queues /\ x \in exchanges
        consumes == dbOk /\ (binds => bound)
        streaming == consumes /\ consumeOk /\ ChannelUsable(m) /\ qn \in queues
        handler == HandlerFor(mgr[m].Service)
        result == CASE ~dbOk -> "database error"
                    [] binds /\ ~bound -> "bind error"
                    [] consumes /\ ~streaming -> "consume error"
                    [] streaming /\ handler = "" -> "invalid queue name"
                    [] OTHER -> "dispatching"
    IN  /\ mgr[m].state = "returned"
        /\ bindings' = IF bound THEN bindings \cup { << qn, x >> } ELSE bindings
        /\ consumers' = IF streaming
                        THEN consumers \cup
                               { [ m |-> m, ch |-> mgr[m].channel, q |-> qn,
                                   n |-> mgr[m].consumes + 1,
                                   autoAck |-> ConsumeAutoAck,
                                   handler |-> handler ] }
                        ELSE consumers
        /\ mgr' = [ mgr EXCEPT ![m].consumes = @ + 1 ]
        /\ calls' = [ calls EXCEPT ![m] =
                        @ \o (IF binds
                              THEN << Call("QueueBind", bound, qn, x) >>
                              ELSE << >>)
                          \o (IF consumes
                              THEN << Call("Consume", streaming, qn, NoExchange) >>
                              ELSE << >>) ]
        /\ last' = [ last EXCEPT ![m] =
                       [ op |-> "ConsumeMessages", result |-> result,
                         publishes |-> 0 ] ]
        /\ nops' = [ nops EXCEPT ![m] = @ + 1 ]
        /\ UNCHANGED << conn, chans, exchanges, queues, qargs, ready, unacked,
                        settled, accepted, reports, npub >>

\* ----------------------------------------------------------------- publish

\* json.Marshal encoding every body as the empty value
Marshal_Empty(body) ==
    IF body \in Unmarshalable
    THEN [ err |-> TRUE, bytes |-> << >> ]
    ELSE [ err |-> FALSE, bytes |-> << "json", "" >> ]

\* json.Marshal: the bytes encoding a body, or the error when it has none
Marshal(body) ==
    IF body \in Unmarshalable
    THEN [ err |-> TRUE, bytes |-> << >> ]
    ELSE [ err |-> FALSE, bytes |-> << "json", body >> ]

\* what a handler decodes from a delivery body: the value json.Marshal encoded
Unmarshal(bytes) ==
    IF Len(bytes) = 2 /\ bytes[1] = "json" THEN bytes[2] ELSE "undecodable"

\* an amqp.Publishing with the transient delivery mode
Publishing_Transient(id, bodyMarshaled) ==
    [ id |-> id, persistent |-> FALSE, contentType |-> "text/plain",
      body |-> bodyMarshaled, redelivered |-> FALSE ]

\* the amqp.Publishing both publish methods build
Publishing(id, bodyMarshaled) ==
    [ id |-> id, persistent |-> TRUE, contentType |-> "text/plain",
      body |-> bodyMarshaled, redelivered |-> FALSE ]

\* broker: the queues a publish to exchange x with routing key key reaches;
\* the default exchange "" routes to the queue named key, a declared fan-out
\* exchange to every queue bound to it
RoutedTo(x, key) ==
    IF x = NoExchange
    THEN { q \in queues : q = key }
    ELSE { q \in queues : x \in exchanges /\ << q, x >> \in bindings }

\* broker: msg appended to every queue of qs
Enqueue(rdy, qs, msg) ==
    [ q \in DOMAIN rdy |-> IF q \in qs THEN Append(rdy[q], msg) ELSE rdy[q] ]

\* the allow-list check left out: every name goes on to the channel
ExchangeAllowed_Any(exchangeName) == TRUE

\* the switch on exchangeName: every other name is refused
ExchangeAllowed(exchangeName) == exchangeName \in AllowedExchanges

\* PublishMessageWithExchange(body, exchangeName)
PublishMessageWithExchange(m, body, exchangeName, ok) ==
    LET allowed == ExchangeAllowed(exchangeName)
        bodyMarshaled == Marshal(body)
        attempt == allowed /\ ~bodyMarshaled.err
        good == attempt /\ ok /\ ChannelUsable(m)
        msg == Publishing(npub + 1, bodyMarshaled.bytes)
        qs == RoutedTo(exchangeName, NoQueue)
    IN  /\ mgr[m].state = "returned"
        /\ ready' = IF good THEN Enqueue(ready, qs, msg) ELSE ready
        /\ accepted' = IF good
                       THEN accepted \cup
                              { [ q |-> q, msg |-> msg, payload |-> body ] : q \in qs }
                       ELSE accepted
        /\ npub' = IF attempt THEN npub + 1 ELSE npub
        /\ calls' = [ calls EXCEPT ![m] =
                        IF attempt
                        THEN Append(@, Call("Publish", good, NoQueue, exchangeName))
                        ELSE @ ]
        /\ last' = [ last EXCEPT ![m] =
                       [ op |-> "PublishMessageWithExchange",
                         result |-> CASE ~allowed -> "invalid exchange name provided"
                                      [] allowed /\ ~attempt -> "serialization error"
                                      [] attempt /\ ~good -> "delivery error"
                                      [] OTHER -> "ok",
                         publishes |-> IF attempt THEN 1 ELSE 0 ] ]
        /\ nops' = [ nops EXCEPT ![m] = @ + 1 ]
        /\ UNCHANGED << mgr, conn, chans, exchanges, queues, qargs, bindings,
                        consumers, unacked, settled, reports >>

\* PublishMessage(body): the routing key is read through qm.queue, which is
\* nil unless DeclareQueue has succeeded on this manager
PublishMessage(m, body, ok) ==
    LET bodyMarshaled == Marshal(body)
        nilQueue == ~bodyMarshaled.err /\ mgr[m].queue = NoQueue
        attempt == ~bodyMarshaled.err /\ ~nilQueue
        good == attempt /\ ok /\ ChannelUsable(m)
        msg == Publishing(npub + 1, bodyMarshaled.bytes)
        qs == RoutedTo(NoExchange, mgr[m].queue)
    IN  /\ mgr[m].state = "returned"
        /\ ready' = IF good THEN Enqueue(ready, qs, msg) ELSE ready
        /\ accepted' = IF good
                       THEN accepted \cup
                              { [ q |-> q, msg |-> msg, payload |-> body ] : q \in qs }
                       ELSE accepted
        /\ npub' = IF attempt THEN npub + 1 ELSE npub
        /\ calls' = [ calls EXCEPT ![m] =
                        IF attempt
                        THEN Append(@, Call("Publish", good, mgr[m].queue, NoExchange))
                        ELSE @ ]
        /\ last' = [ last EXCEPT ![m] =
                       [ op |-> "PublishMessage",
                         result |-> CASE bodyMarshaled.err -> "serialization error"
                                      [] nilQueue -> "panic: nil queue"
                                      [] attempt /\ ~good -> "delivery error"
                                      [] OTHER -> "ok",
                         publishes |-> IF attempt THEN 1 ELSE 0 ] ]
        /\ nops' = [ nops EXCEPT ![m] = @ + 1 ]
        /\ UNCHANGED << mgr, conn, chans, exchanges, queues, qargs, bindings,
                        consumers, unacked, settled, reports >>

\* ------------------------------------------------------------------ broker

\* the messages of S as a sequence, in the order they were published
SortById(S) ==
    [ i \in 1..Cardinality(S) |->
        CHOOSE x \in S : Cardinality({ y \in S : y.id < x.id }) = i - 1 ]

\* broker: a message put back in its queue carries the redelivered flag
Redelivered(msg) == [ msg EXCEPT !.redelivered = TRUE ]

\* broker: the deliveries ds go back to the head of their queues
ReturnToQueue(rdy, ds) ==
    [ q \in DOMAIN rdy |->
        SortById({ Redelivered(d.msg) : d \in { e \in ds : e.q = q } })
            \o rdy[q] ]

\* broker: the channels idxs of manager m's connection close; their
\* consumption streams end and their unsettled deliveries are requeued
ChannelsClosed(m, idxs) ==
    LET ds == { d \in unacked : d.m = m /\ d.ch \in idxs }
    IN  /\ chans' = [ chans EXCEPT ![m] =
                        [ i \in DOMAIN @ |->
                            IF i \in idxs THEN [ @[i] EXCEPT !.open = FALSE ]
                            ELSE @[i] ] ]
        /\ consumers' = { c \in consumers : ~(c.m = m /\ c.ch \in idxs) }
        /\ unacked' = unacked \ ds
        /\ ready' = ReturnToQueue(ready, ds)

\* the dispatch loop behind stream c takes a delivery and starts a handler
\* task for it: the stream has a handler and its context is not cancelled
Accepts(c) == c.handler # "" /\ ~mgr[c.m].cancelled

\* broker: the head of a queue is pushed to one of its consumption streams,
\* within the prefetch bound of the stream's channel (0: no bound). With
\* autoAck the broker settles the delivery as it hands it out.
Deliver(c) ==
    LET ch == chans[c.m][c.ch]
        held == Cardinality({ d \in unacked : d.m = c.m /\ d.ch = c.ch })
        msg == Head(ready[c.q])
    IN  /\ c \in consumers
        /\ ch.open
        /\ ready[c.q] # << >>
        /\ ch.qos = 0 \/ held < ch.qos
        /\ ready' = [ ready EXCEPT ![c.q] = Tail(@) ]
        /\ IF c.autoAck
           THEN /\ settled' = settled \cup
                                { [ m |-> c.m, q |-> c.q, msg |-> msg, how |-> "auto" ] }
                /\ UNCHANGED unacked
           ELSE /\ unacked' = unacked \cup
                                { [ m |-> c.m, ch |-> c.ch, n |-> c.n,
                                    q |-> c.q, msg |-> msg,
                                    task |-> Accepts(c) ] }
                /\ UNCHANGED settled
        /\ UNCHANGED << mgr, conn, chans, exchanges, queues, qargs, bindings,
                        consumers, accepted, calls, last, reports, npub, nops >>

\* the handler of the stream a delivery came on settles it: acknowledge,
\* negative-acknowledge with requeue, or negative-acknowledge without
Handle(d, outcome) ==
    /\ d \in unacked
    /\ d.task
    /\ unacked' = unacked \ { d }
    /\ ready' = IF outcome = "nack-requeue"
                THEN [ ready EXCEPT ![d.q] = << Redelivered(d.msg) >> \o @ ]
                ELSE ready
    /\ settled' = IF outcome = "nack-requeue" THEN settled
                  ELSE settled \cup
                         { [ m |-> d.m, q |-> d.q, msg |-> d.msg, how |-> outcome ] }
    /\ UNCHANGED << mgr, conn, chans, exchanges, queues, qargs, bindings, consumers,
                    accepted, calls, last, reports, npub, nops >>

\* the consuming process of manager m dies: the broker sees its connection
\* drop
Crash(m) ==
    /\ mgr[m].state = "returned"
    /\ conn[m] = "open"
    /\ \E c \in consumers : c.m = m
    /\ mgr' = [ mgr EXCEPT ![m].state = "crashed" ]
    /\ conn' = [ conn EXCEPT ![m] = "lost" ]
    /\ ChannelsClosed(m, DOMAIN chans[m])
    /\ UNCHANGED << exchanges, queues, qargs, bindings, settled, accepted, calls, last,
                    reports, npub, nops >>

\* ------------------------------------------------------------------- Close

\* the log reports of the manager
LogError(log, message) == Append(log, [ level |-> "error", message |-> message ])
LogInfo(log, message) == Append(log, [ level |-> "info", message |-> message ])

\* Close returning at once when channel.Close() fails
ConnCloseAttempted_OnlyAfterChannel(chClosed) == chClosed

\* whether Close goes on to connection.Close() after channel.Close(): it
\* does, whatever the channel close returned
ConnCloseAttempted(chClosed) == TRUE

\* Close: channel.Close() and its report, then connection.Close() and its
\* report. chOk and connOk say whether the two calls succeed on the wire; a
\* close of what is already closed fails.
Close(m, chOk, connOk) ==
    LET chClosed == chOk /\ ChannelUsable(m)
        attempted == ConnCloseAttempted(chClosed)
        connClosed == attempted /\ connOk /\ conn[m] = "open"
        r1 == IF chClosed
              THEN LogInfo(reports[m], "properly shutdown channel")
              ELSE LogError(reports[m], "failed to properly close channel")
        r2 == CASE ~attempted -> r1
                [] connClosed -> LogInfo(r1, "properly shutdown connnetion")
                [] OTHER -> LogError(r1, "failed to properly close connection")
    IN  /\ mgr[m].state = "returned"
        /\ ChannelsClosed(m, IF connClosed THEN DOMAIN chans[m]
                             ELSE IF chClosed THEN { mgr[m].channel } ELSE {})
        /\ conn' = [ conn EXCEPT ![m] = IF connClosed THEN "closed" ELSE @ ]
        /\ reports' = [ reports EXCEPT ![m] = r2 ]
        /\ calls' = [ calls EXCEPT ![m] =
                        @ \o << Call("ChannelClose", chClosed, NoQueue, NoExchange) >>
                          \o (IF attempted
                              THEN << Call("ConnectionClose", connClosed, NoQueue,
                                           NoExchange) >>
                              ELSE << >>) ]
        /\ last' = [ last EXCEPT ![m] =
                       [ op |-> "Close", result |-> "none", publishes |-> 0 ] ]
        /\ nops' = [ nops EXCEPT ![m] = @ + 1 ]
        /\ UNCHANGED << mgr, exchanges, queues, qargs, bindings, settled, accepted,
                        npub >>

\* ---------------------------------------------------------------- shutdown

\* the context handed to ConsumeMessages is cancelled: the dispatch loop of
\* manager m takes no further delivery
Cancel(m) ==
    /\ mgr[m].state = "returned"
    /\ ~mgr[m].cancelled
    /\ \E c \in consumers : c.m = m /\ c.handler # ""
    /\ mgr' = [ mgr EXCEPT ![m].cancelled = TRUE ]
    /\ UNCHANGED << conn, chans, exchanges, queues, qargs, bindings, ready,
                    consumers, unacked, settled, accepted, calls, last, reports,
                    npub, nops >>

\* the handler tasks of manager m that have not finished
InFlight(m) == { d \in unacked : d.m = m /\ d.task }

\* a dispatch loop that closes as soon as it sees the cancellation
Drained_NoWait(m) == TRUE

\* the wait group of manager m's handler tasks is at zero
Drained(m) == InFlight(m) = {}

\* the cancelled dispatch loop of manager m awaits its handler tasks, then
\* closes the manager and returns
Drain(m, chOk, connOk) ==
    /\ mgr[m].cancelled
    /\ \A i \in 1..Len(calls[m]) : calls[m][i].op # "ChannelClose"
    /\ Drained(m)
    /\ Close(m, chOk, connOk)

\* ---------------------------------------------------------- broker restart

\* broker: the broker restarts. Every connection drops; a durable queue
\* comes back with its persistent messages, delivered-but-unsettled ones
\* included; any other queue and any other message is gone.
Restart ==
    LET kept == { q \in queues : qargs[q].durable }
        all == ReturnToQueue(ready, unacked)
    IN  /\ \E m \in Mgrs : conn[m] = "open"
        /\ conn' = [ m \in Mgrs |-> IF conn[m] = "open" THEN "lost" ELSE conn[m] ]
        /\ chans' = [ m \in Mgrs |->
                        [ i \in DOMAIN chans[m] |->
                            [ chans[m][i] EXCEPT !.open = FALSE ] ] ]
        /\ consumers' = {}
        /\ unacked' = {}
        /\ queues' = kept
        /\ qargs' = [ q \in kept |-> qargs[q] ]
        /\ bindings' = { b \in bindings : b[1] \in kept }
        /\ ready' = [ q \in kept |->
                        SelectSeq(all[q], LAMBDA msg : msg.persistent) ]
        /\ UNCHANGED << mgr, exchanges, settled, accepted, calls, last, reports,
                        npub, nops >>

\* ------------------------------------------------------------ specification

\* a caller may make one more method call on manager m
MayCall(m) == nops[m] < MaxOps
\* a caller may hand one more message to the broker
MayPublish(m) == MayCall(m) /\ npub < MaxPublishes

Outcomes == { "ack", "nack-requeue", "nack-drop" }

\* one manager, every input and every failure, MaxOps calls after Initialize
Next1 ==
    \E m \in { "m1" } :
        \/ \E qn \in QueueNameInputs, p \in BOOLEAN, s \in BOOLEAN, h \in { "hostA" } :
              \E k \in 0..Len(InitSteps(qn, p, s)) :
                  Initialize(m, qn, p, s, h, k)
        \/ \E chOk \in BOOLEAN, qosOk \in BOOLEAN :
              MayCall(m) /\ OpenChannel(m, chOk, qosOk)
        \/ \E ok \in BOOLEAN : MayCall(m) /\ DeclareQueue(m, ok)
        \/ \E dbOk \in BOOLEAN, bindOk \in BOOLEAN, consumeOk \in BOOLEAN :
              MayCall(m) /\ ConsumeMessages(m, dbOk, bindOk, consumeOk)
        \/ \E b \in Bodies, x \in ExchangeNameInputs, ok \in BOOLEAN :
              MayPublish(m) /\ PublishMessageWithExchange(m, b, x, ok)
        \/ \E b \in Bodies, ok \in BOOLEAN :
              MayPublish(m) /\ PublishMessage(m, b, ok)
        \/ \E chOk \in BOOLEAN, connOk \in BOOLEAN :
              MayCall(m) /\ Close(m, chOk, connOk)
        \/ Crash(m)
        \/ \E c \in consumers : Deliver(c)
        \/ \E d \in unacked, o \in Outcomes : Handle(d, o)

Spec == Init /\ [][Next1]_vars

\* the fan-out categories: two managers, the first on hostA and the second
\* on either host, every call succeeding; each manager opens one stream, and
\* the first publishes to the exchanges
Next2 ==
    \/ \E m \in Mgrs :
          \/ \E qn \in { IpfsPinQueue, IpfsKeyCreationQueue },
                h \in IF m = "m1" THEN { "hostA" } ELSE Hosts :
                Initialize(m, qn, FALSE, FALSE, h, 0)
          \/ /\ MayCall(m)
             /\ mgr[m].consumes = 0
             /\ ConsumeMessages(m, TRUE, TRUE, TRUE)
          \/ \E x \in { PinExchange, IpfsKeyExchange } :
                /\ MayPublish(m)
                /\ m = "m1"
                /\ PublishMessageWithExchange(m, "pin-Qm123", x, TRUE)
    \/ \E c \in consumers : Deliver(c)
    \/ \E d \in unacked, o \in Outcomes : Handle(d, o)

SpecFanout == Init /\ [][Next2]_vars

\* one consuming manager and no failure of the broker: the manager consumes
\* its queue and publishes to it
Next3 ==
    \/ \E m \in { "m1" } :
          \/ \E qn \in RecognizedQueues, s \in BOOLEAN :
                Initialize(m, qn, FALSE, s, "hostA", 0)
          \/ MayCall(m) /\ ConsumeMessages(m, TRUE, TRUE, TRUE)
          \/ \E b \in Bodies, ok \in BOOLEAN :
                MayPublish(m) /\ PublishMessage(m, b, ok)
    \/ \E c \in consumers : Deliver(c)
    \/ \E d \in unacked, o \in Outcomes : Handle(d, o)

\* one consuming manager that is cancelled and drained, and a broker that
\* restarts
Next4 ==
    \/ \E m \in { "m1" } :
          \/ \E qn \in RecognizedQueues : Initialize(m, qn, FALSE, FALSE, "hostA", 0)
          \/ MayCall(m) /\ ConsumeMessages(m, TRUE, TRUE, TRUE)
          \/ \E b \in Bodies : MayPublish(m) /\ PublishMessage(m, b, TRUE)
          \/ Cancel(m)
          \/ \E chOk \in BOOLEAN, connOk \in BOOLEAN : Drain(m, chOk, connOk)
    \/ Restart
    \/ \E c \in consumers : Deliver(c)
    \/ \E d \in unacked, o \in Outcomes : Handle(d, o)

SpecShutdown == Init /\ [][Next4]_vars

\* broker: message id, at the head of its queue, is pushed to a stream
DeliverMsg(id) ==
    \E c \in consumers :
        /\ ready[c.q] # << >>
        /\ Head(ready[c.q]).id = id
        /\ Deliver(c)

\* the broker pushes a message as soon as a stream of its queue has room for
\* it, without waiting for the handlers: a message that is at the head of a
\* consumed queue again and again is pushed
SpecLive ==
    /\ Init
    /\ [][Next3]_vars
    /\ \A id \in 1..MaxPublishes : SF_vars(DeliverMsg(id))

\* ------------------------------------------------------------------ claims

\* the variables a refused publish must leave alone: everything but the
\* record of the call itself
BrokerAndManager ==
    << mgr, conn, chans, exchanges, queues, qargs, bindings, ready, consumers,
       unacked, settled, accepted, calls, reports, npub >>

\* the call manager m's log ends with is one channel publish to exchange x
OnePublishAppended(m, x) ==
    /\ Len(calls'[m]) = Len(calls[m]) + 1
    /\ SubSeq(calls'[m], 1, Len(calls[m])) = calls[m]
    /\ calls'[m][Len(calls'[m])].op = "Publish"
    /\ calls'[m][Len(calls'[m])].x = x
    /\ npub' = npub + 1
    /\ last'[m].publishes = 1

\* what PublishMessageWithExchange does with a name outside the allow-list
RefusedUnchanged(m) ==
    /\ last'[m].result = "invalid exchange name provided"
    /\ last'[m].publishes = 0
    /\ UNCHANGED BrokerAndManager

\* C1 as stated: a name outside the allow-list is refused with no broker call
\* and nothing changed; a name inside it always gives exactly one channel
\* publish to that exchange.
C1_AsStated ==
    [][ \A m \in Mgrs, b \in Bodies, x \in ExchangeNameInputs, ok \in BOOLEAN :
          PublishMessageWithExchange(m, b, x, ok) =>
            IF x \notin { PinExchange, PinRemovalExchange, IpfsKeyExchange }
            THEN RefusedUnchanged(m)
            ELSE OnePublishAppended(m, x) ]_vars

\* C1 (amended): PublishMessageWithExchange with a name outside the
\* allow-list returns the invalid-exchange error, makes no broker call and
\* leaves broker and manager unchanged; with a name inside it and a body that
\* serializes, exactly one channel publish to that exchange is attempted; with
\* a body that does not serialize, none is.
C1_RefusedOrOnePublish ==
    [][ \A m \in Mgrs, b \in Bodies, x \in ExchangeNameInputs, ok \in BOOLEAN :
          PublishMessageWithExchange(m, b, x, ok) =>
            CASE x \notin { PinExchange, PinRemovalExchange, IpfsKeyExchange } ->
                   RefusedUnchanged(m)
              [] x \in { PinExchange, PinRemovalExchange, IpfsKeyExchange }
                   /\ b \in Unmarshalable ->
                   /\ last'[m].result = "serialization error"
                   /\ last'[m].publishes = 0
                   /\ UNCHANGED BrokerAndManager
              [] OTHER -> OnePublishAppended(m, x) ]_vars

\* a publish with a name outside the allow-list has been refused
C1_Witness ==
    \E m \in Mgrs :
        /\ last[m].op = "PublishMessageWithExchange"
        /\ last[m].result = "invalid exchange name provided"

\* the categories for which Initialize declares an exchange
ExchangeCategories == { IpfsPinQueue, IpfsKeyCreationQueue }

\* the positions of manager m's log holding a call op that succeeded
Done(m, op) == { i \in 1..Len(calls[m]) : calls[m][i].op = op /\ calls[m][i].ok }
\* the positions of manager m's log holding a call op, failed or not
Issued(m, op) == { i \in 1..Len(calls[m]) : calls[m][i].op = op }

\* C2: a queue name that is none of the recognized categories fails at
\* Initialize with 'invalid queue name': no manager is returned for it, and no
\* queue is declared, no binding made and no consumption stream opened for it.
C2_UnrecognizedFailsAtInitialize ==
    /\ \A m \in Mgrs :
          mgr[m].state = "returned" => mgr[m].Service \in RecognizedQueues
    /\ \A q \in queues : q[2] \in RecognizedQueues
    /\ \A b \in bindings : b[1][2] \in RecognizedQueues
    /\ \A c \in consumers : c.q[2] \in RecognizedQueues

\* C3 as stated: for a manager of an exchange category, the exchange
\* declaration and the queue-to-exchange binding both come before the queue
\* declaration.
C3_AsStated ==
    \A m \in Mgrs :
        mgr[m].Service \in ExchangeCategories =>
            \A i \in Done(m, "QueueDeclare") :
                /\ \E j \in Done(m, "ExchangeDeclare") : j < i
                /\ \E j \in Done(m, "QueueBind") : j < i

\* C3 (amended): for a manager of an exchange category, the exchange
\* declaration comes before every queue declaration; the binding does not: it
\* is made by ConsumeMessages, after Initialize has returned, so for a consuming
\* manager after the queue declaration of Initialize, and only with the
\* exchange declared.
C3_ExchangeThenQueueThenBind ==
    \A m \in Mgrs :
        mgr[m].Service \in ExchangeCategories =>
            /\ \A i \in Issued(m, "QueueDeclare") :
                  \E j \in Done(m, "ExchangeDeclare") : j < i
            /\ \A i \in Issued(m, "QueueBind") :
                  /\ mgr[m].state \in { "returned", "crashed" }
                  /\ \E j \in Done(m, "ExchangeDeclare") : j < i
                  /\ ~mgr[m].publish =>
                        \E j \in Done(m, "QueueDeclare") : j < i

\* a manager of an exchange category has declared its exchange, declared its
\* queue and bound the queue
C3_Witness ==
    \E m \in Mgrs :
        /\ mgr[m].Service \in ExchangeCategories
        /\ Done(m, "ExchangeDeclare") # {}
        /\ Done(m, "QueueDeclare") # {}
        /\ Done(m, "QueueBind") # {}

\* C4: PublishMessage on a manager Initialize returned ends in ok, a
\* serialization error or a delivery error, the message going to the
\* manager's queue name; it never runs into an unset queue handle.
C4_PublishMessageOutcomes ==
    \A m \in Mgrs :
        last[m].op = "PublishMessage" =>
            /\ last[m].result \in { "ok", "serialization error", "delivery error" }
            /\ last[m].publishes = 1 =>
                  calls[m][Len(calls[m])].q = mgr[m].QueueName

\* C5: Initialize with publish=true issues no queue declaration (nor bind,
\* consume or publish), only the connection, the channel and, for the exchange
\* categories, the exchange declaration; Initialize with publish=false that
\* succeeds has declared its queue exactly once.
C5_PublishOnlyDeclaresNoQueue ==
    \A m \in Mgrs :
        last[m].op = "Initialize" =>
            /\ mgr[m].publish =>
                  /\ Issued(m, "QueueDeclare") = {}
                  /\ mgr[m].queue = NoQueue
                  /\ \A i \in 1..Len(calls[m]) :
                        calls[m][i].op \in { "Dial", "Channel", "Qos", "setupLogging",
                                             "Hostname", "ExchangeDeclare" }
            /\ Issued(m, "ExchangeDeclare") # {} =>
                  mgr[m].Service \in ExchangeCategories
            /\ (~mgr[m].publish /\ last[m].result = "ok") =>
                  /\ Cardinality(Issued(m, "QueueDeclare")) = 1
                  /\ Done(m, "QueueDeclare") = Issued(m, "QueueDeclare")
                  /\ mgr[m].queue = mgr[m].QueueName
                  /\ mgr[m].QueueName \in queues

\* Initialize has returned a publish-only manager of an exchange category
C5_Witness ==
    \E m \in Mgrs :
        /\ last[m].op = "Initialize"
        /\ last[m].result = "ok"
        /\ mgr[m].publish
        /\ mgr[m].ExchangeName = PinExchange
        /\ Done(m, "ExchangeDeclare") # {}

\* C6: in ConsumeMessages, a manager whose exchange needs binding has its
\* queue bound to that exchange right before the consumption stream is
\* opened; when the bind fails no stream is opened; a manager with no
\* exchange issues no bind.
C6_BindBeforeConsume ==
    \A m \in Mgrs :
        /\ mgr[m].ExchangeName \in { PinRemovalExchange, PinExchange, IpfsKeyExchange } =>
              \A i \in Issued(m, "Consume") :
                  /\ i > 1
                  /\ calls[m][i - 1].op = "QueueBind"
                  /\ calls[m][i - 1].ok
                  /\ calls[m][i - 1].q = calls[m][i].q
                  /\ calls[m][i - 1].x = mgr[m].ExchangeName
        /\ \A i \in Issued(m, "QueueBind") :
              ~calls[m][i].ok =>
                  (i = Len(calls[m]) \/ calls[m][i + 1].op # "Consume")
        /\ last[m].result = "bind error" =>
              calls[m][Len(calls[m])].op = "QueueBind"
        /\ mgr[m].ExchangeName = NoExchange => Issued(m, "QueueBind") = {}

\* a manager has bound its queue and opened a consumption stream
C6_Witness ==
    \E m \in Mgrs :
        /\ Done(m, "QueueBind") # {}
        /\ Done(m, "Consume") # {}
        /\ last[m].result = "dispatching"

\* message id of queue q is waiting in the queue
Waiting(q, id) == \E i \in 1..Len(ready[q]) : ready[q][i].id = id
\* message id of queue q is held, unsettled, on a channel that is open
Held(q, id) ==
    \E d \in unacked : d.q = q /\ d.msg.id = id /\ chans[d.m][d.ch].open
\* message id of queue q was settled by an explicit ack or nack
ExplicitlySettled(q, id) ==
    \E t \in settled :
        t.q = q /\ t.msg.id = id /\ t.how \in { "ack", "nack-drop" }

\* C7: every consumption stream has auto-acknowledge off, so a message that
\* entered a queue is waiting in it, held unsettled on an open channel, or
\* settled by an explicit acknowledge or negative-acknowledge: a crash or a
\* channel close with the delivery unsettled puts it back in the queue.
C7_UnsettledIsRedelivered ==
    /\ \A c \in consumers : ~c.autoAck
    /\ \A t \in settled : t.how # "auto"
    /\ \A a \in accepted :
          \/ Waiting(a.q, a.msg.id)
          \/ Held(a.q, a.msg.id)
          \/ ExplicitlySettled(a.q, a.msg.id)

\* the process crashed holding a delivery, which is back in its queue
C7_Witness ==
    \E m \in Mgrs :
        /\ mgr[m].state = "crashed"
        /\ unacked = {}
        /\ settled = {}
        /\ \E a \in accepted :
              \E i \in 1..Len(ready[a.q]) :
                  /\ ready[a.q][i].id = a.msg.id
                  /\ ready[a.q][i].body = a.msg.body
                  /\ ready[a.q][i].redelivered

\* the close calls of manager m, in order
CloseCalls(m) ==
    SelectSeq(calls[m], LAMBDA c : c.op \in { "ChannelClose", "ConnectionClose" })

C9_ConnectionClosedExactlyOnce ==
    \A m \in Mgrs :
        /\ mgr[m].state = "failed" => conn[m] # "open"
        /\ Cardinality(Done(m, "ConnectionClose")) <= 1

\* the channels of manager m's connection that are open
OpenChannels(m) == { i \in DOMAIN chans[m] : chans[m][i].open }

\* C10: after any sequence of OpenChannel calls exactly one channel of the
\* connection belongs to the manager: a reopen replaces the channel, it does
\* not add a second one.
C10_ExactlyOneChannel ==
    \A m \in Mgrs :
        /\ Cardinality(OpenChannels(m)) <= 1
        /\ (mgr[m].state = "returned" /\ CloseCalls(m) = << >>) =>
              OpenChannels(m) = { mgr[m].channel }

\* the unsettled deliveries held on channel i of manager m's connection
HeldOn(m, i) == { d \in unacked : d.m = m /\ d.ch = i }

\* C11: every channel a manager uses has the prefetch bound of 10 set before
\* anything is declared, published or consumed on it, so the deliveries handed
\* to the process and not yet settled never number more than 10 on a channel.
C11_PrefetchBoundOnEveryChannel ==
    /\ \A m \in Mgrs :
          mgr[m].state = "returned" /\ ChannelUsable(m) =>
              chans[m][mgr[m].channel].qos = PrefetchCount
    /\ \A c \in consumers : chans[c.m][c.ch].qos = PrefetchCount
    /\ \A m \in Mgrs :
          \A i \in DOMAIN chans[m] : Cardinality(HeldOn(m, i)) <= PrefetchCount

\* the managers consuming, with a handler, the queue they bound to exchange x
Instances(x) ==
    { m \in Mgrs :
        /\ mgr[m].ExchangeName = x
        /\ << mgr[m].QueueName, x >> \in bindings
        /\ \E c \in consumers :
              c.m = m /\ c.q = mgr[m].QueueName /\ c.handler # "" }

\* message id came to manager m: m holds it unsettled or has settled it
Received(m, id) ==
    \/ \E d \in unacked : d.m = m /\ d.msg.id = id
    \/ \E t \in settled : t.m = m /\ t.msg.id = id

\* the copies a publish step put in queues
NewCopies == accepted' \ accepted

\* C12 as stated: one publish to the exchange of a fan-out category gives one
\* copy to each consumer instance of the category, whatever host the
\* instances run on.
C12_AsStated ==
    [][ \A m \in Mgrs, b \in Bodies \ Unmarshalable,
           x \in { PinExchange, IpfsKeyExchange } :
          PublishMessageWithExchange(m, b, x, TRUE) =>
              Cardinality(NewCopies) = Cardinality(Instances(x)) ]_vars

\* C12 (amended): one publish to the exchange of a fan-out category puts one
\* copy in each queue bound to the exchange, and the queue is named after the
\* host: consumer instances on different hosts each get their own copy, the
\* instances of one host share one queue and one copy, and a copy is handed
\* to one consumption stream at a time.
C12_OneCopyPerHost ==
    [][ /\ \A m \in Mgrs, b \in Bodies \ Unmarshalable,
             x \in { PinExchange, IpfsKeyExchange } :
            PublishMessageWithExchange(m, b, x, TRUE) =>
                /\ Cardinality(NewCopies) =
                       Cardinality({ mgr[i].host : i \in Instances(x) })
                /\ \A i \in Instances(x) :
                      \E a \in NewCopies :
                          a.q = << mgr[i].host, mgr[i].Service >>
        /\ Cardinality(unacked' \ unacked) <= 1 ]_vars

\* two instances of one category on different hosts have each received the
\* same message
C12_Witness ==
    \E i \in Mgrs, j \in Mgrs :
        /\ mgr[i].host # mgr[j].host
        /\ mgr[i].ExchangeName = mgr[j].ExchangeName
        /\ \E a \in accepted : Received(i, a.msg.id) /\ Received(j, a.msg.id)

\* payload P was published as message id into a queue a stream consumes
PublishedToConsumed(id, P) ==
    \E a \in accepted :
        /\ a.msg.id = id
        /\ a.payload = P
        /\ \E c \in consumers : c.q = a.q

\* a consumer of the queue has or has had message id, and what it decodes
\* from it is P: it holds the delivery, has settled it, or has sent it back to
\* the queue, where it carries the redelivered flag
ReceivedDecoded(id, P) ==
    \E a \in accepted :
        /\ a.msg.id = id
        /\ \/ \E d \in unacked :
                 d.q = a.q /\ d.msg.id = id /\ Unmarshal(d.msg.body) = P
           \/ \E t \in settled :
                 t.q = a.q /\ t.msg.id = id /\ Unmarshal(t.msg.body) = P
           \/ \E i \in 1..Len(ready[a.q]) :
                 /\ ready[a.q][i].id = id
                 /\ ready[a.q][i].redelivered
                 /\ Unmarshal(ready[a.q][i].body) = P

C15_NoRetryErrorSurfaced ==
    \A m \in Mgrs :
        /\ Cardinality(Issued(m, "Dial")) <= 1
        /\ (\E i \in Issued(m, "Dial") : ~calls[m][i].ok) =>
              /\ mgr[m].state = "failed"
              /\ last[m].op = "Initialize"
              /\ last[m].result = "Dial"
              /\ Len(calls[m]) = 1
        /\ Cardinality(Issued(m, "Publish")) <= nops[m]
        /\ last[m].op \in { "PublishMessage", "PublishMessageWithExchange" } =>
              /\ last[m].publishes <= 1
              /\ last[m].result = "delivery error" <=>
                    /\ last[m].publishes = 1
                    /\ calls[m][Len(calls[m])].op = "Publish"
                    /\ ~calls[m][Len(calls[m])].ok

\* a channel publish failed and the call returned its error
C15_Witness ==
    \E m \in Mgrs :
        /\ last[m].op = "PublishMessage"
        /\ last[m].result = "delivery error"
        /\ Cardinality(Issued(m, "Publish")) = 1

C17_ConsumesOnlyFromTopologyReady ==
    \A c \in consumers :
        /\ ~mgr[c.m].publish
        /\ mgr[c.m].queue # NoQueue
        /\ chans[c.m][c.ch].open

\* the handler each category is dispatched to
ExpectedHandler ==
    [ q \in RecognizedQueues |->
        CASE q = DatabaseFileAddQueue -> "ProcessDatabaseFileAdds"
          [] q = IpfsPinQueue -> "ProccessIPFSPins"
          [] q = IpfsFileQueue -> "ProccessIPFSFiles"
          [] q = EmailSendQueue -> "ProcessMailSends"
          [] q = IpnsEntryQueue -> "ProcessIPNSEntryCreationRequests"
          [] q = IpfsKeyCreationQueue -> "ProcessIPFSKeyCreation"
          [] q = IpfsClusterPinQueue -> "ProcessIPFSClusterPins" ]

\* C18: each of the seven recognized categories goes to its own handler,
\* picked from the category Initialize stored in Service; for a host-scoped
\* category the queue name carries the host prefix and Service does not, so a
\* manager of a recognized category never gets 'invalid queue name'.
C18_OneHandlerPerCategory ==
    /\ \A q1 \in RecognizedQueues, q2 \in RecognizedQueues :
          q1 # q2 => ExpectedHandler[q1] # ExpectedHandler[q2]
    /\ \A c \in consumers :
          mgr[c.m].Service \in RecognizedQueues =>
              c.handler = ExpectedHandler[mgr[c.m].Service]
    /\ \A m \in Mgrs :
          /\ ( /\ mgr[m].state = "returned"
               /\ mgr[m].Service \in ExchangeCategories ) =>
                /\ mgr[m].QueueName = << mgr[m].host, mgr[m].Service >>
                /\ mgr[m].host # ""
                /\ mgr[m].QueueName # << "", mgr[m].Service >>
          /\ ( /\ last[m].op = "ConsumeMessages"
               /\ last[m].result = "invalid queue name" ) =>
                mgr[m].Service \notin RecognizedQueues

\* a manager of a host-scoped category consumes its prefixed queue and
\* dispatches to the handler of the category
C18_Witness ==
    \E c \in consumers :
        /\ mgr[c.m].Service = IpfsKeyCreationQueue
        /\ c.q = << "hostA", IpfsKeyCreationQueue >>
        /\ c.handler = "ProcessIPFSKeyCreation"
        /\ last[c.m].result = "dispatching"

\* C19: when ConsumeMessages returns an error before dispatching, no stream
\* that call opened stays registered: the broker hands no delivery to a
\* stream without a handler and no message is held unsettled by one.
C19_NoStreamLeftAfterError ==
    /\ \A m \in Mgrs :
          ( /\ last[m].op = "ConsumeMessages"
            /\ last[m].result # "dispatching" ) =>
              ~\E c \in consumers : c.m = m /\ c.n = mgr[m].consumes
    /\ \A c \in consumers : c.handler # ""
    /\ \A d \in unacked :
          \E c \in consumers :
              c.m = d.m /\ c.ch = d.ch /\ c.n = d.n /\ c.handler # ""

\* C20: every exchange name the allow-list lets through is one Initialize
\* declares for some queue category and stores as a manager's ExchangeName,
\* so a publish to an allowed exchange goes to an exchange some initialized
\* manager declares.
C20_AllowedExchangeIsDeclared ==
    \A m \in Mgrs :
        \A i \in Done(m, "Publish") :
            calls[m][i].x # NoExchange =>
                \E qn \in RecognizedQueues : InitExchange(qn) = calls[m][i].x

====
